---------------------------- MODULE Spec2Model ----------------------------
(***************************************************************************)
(* The keychain module of rust-ffi-demo (src/src/keychain/mod.rs and       *)
(* src/src/keychain/cfutil.rs) as a state machine.                         *)
(*                                                                         *)
(* A call of one of the three public functions runs as a straight line of  *)
(* foreign calls.  Each function is written down as the list of foreign    *)
(* calls and Rust steps its body performs, in source order (the operators  *)
(* add_generic_password, delete_generic_passwords_by_service,              *)
(* find_generic_password_by_service, KeychainErrorFrom,                    *)
(* string_from_cf_string, vec_from_cfdata); the variable todo holds what   *)
(* is left of the running call and one action per kind of step executes    *)
(* the head of todo on a heap of reference-counted CoreFoundation objects  *)
(* and on the keychain.                                                    *)
(*                                                                         *)
(* Rust strings are sequences of UTF-8 bytes, a CFString is a sequence of  *)
(* code points, a CFData is a sequence of bytes.                           *)
(***************************************************************************)
EXTENDS Integers, Sequences, FiniteSets

VARIABLES
    store,      \* the keychain: a set of generic-password items
    pre,        \* the keychain as it was when the running call started
    call,       \* the running (or last) call: function and arguments
    prev,       \* the call completed before it, with its outcome
    todo,       \* the steps the running call has still to execute
    heap,       \* CoreFoundation objects: retain count, contents, members
    ptr,        \* the raw-pointer locals of the running call
    status,     \* the OSStatus local of the running call
    local,      \* the owned Rust values (String / Vec<u8>) of the running call
    ret,        \* what the call returned (or that it panicked)
    created,    \* number of objects the call created or was handed as owner
    released,   \* number of CFRelease calls the call made
    rel,        \* CFRelease calls per object
    requests,   \* number of keychain requests (SecItem*) the call issued
    copied,     \* the Rust locals already filled from foreign memory
    uaf,        \* a foreign call or a read touched an object already freed
    overRelease \* a release reached an object whose retain count was 0

vars == <<store, pre, call, prev, todo, heap, ptr, status, local, ret,
          created, released, rel, requests, copied, uaf, overRelease>>

-----------------------------------------------------------------------------
(* OSStatus values of the Security framework, brought in by bindgen        *)
(* (src/build.rs, whitelist_var("^errSec.*")) and used by name in mod.rs.  *)

errSecSuccess == 0

errSecAuthFailed == -25293

errSecDuplicateItem == -25299

errSecItemNotFound == -25300

errSecInvalidOwnerEdit == -25244

\* A status the module does not know by name (the keychain is not available).
errSecNotAvailable == -25291

-----------------------------------------------------------------------------
(* Inputs.  Rust strings, as UTF-8 bytes: "s", "é"; "u", "ü"; "p", "é2".   *)

Services == { <<115>>, <<195, 169>> }

Names == { <<117>>, <<195, 188>> }

Passwords == { <<112>>, <<195, 169, 50>> }

\* The statuses with which the keychain refuses a request it was sent.
Faults == { errSecAuthFailed, errSecNotAvailable }

\* Width of the window of raw status codes the status mapping is tried on.
RawSpan == 70

RawCodes == { errSecSuccess } \cup
            ((errSecItemNotFound - 5) .. (errSecItemNotFound - 5 + RawSpan))

-----------------------------------------------------------------------------
(* Text conversions of CoreFoundation (kCFStringEncodingUTF8), for code    *)
(* points below 0x800.                                                     *)

RECURSIVE Utf8Decode(_)
Utf8Decode(bytes) ==
    IF bytes = <<>> THEN <<>>
    ELSE IF bytes[1] < 128
         THEN <<bytes[1]>> \o Utf8Decode(Tail(bytes))
         ELSE IF Len(bytes) >= 2
              THEN <<(bytes[1] - 192) * 64 + (bytes[2] - 128)>>
                   \o Utf8Decode(Tail(Tail(bytes)))
              ELSE <<>>

RECURSIVE Utf8Encode(_)
Utf8Encode(cps) ==
    IF cps = <<>> THEN <<>>
    ELSE (IF cps[1] < 128
          THEN <<cps[1]>>
          ELSE <<192 + (cps[1] \div 64), 128 + (cps[1] % 64)>>)
         \o Utf8Encode(Tail(cps))

\* The text SecCopyErrorMessageString gives for a status: one text per status.
ErrorMessageText(st) == <<233, (0 - st) % 128>>

-----------------------------------------------------------------------------
(* The heap of CoreFoundation objects.                                     *)

NULL == "NULL"

\* Objects a call can create or be handed; the last two are owned by "result".
Objects == { "cf_service", "cf_account", "cf_password", "attributes", "query",
             "result", "cf_message", "cf_utf8", "result.account", "result.data" }

Pointers == { "cf_service", "cf_account", "cf_password", "attributes", "query",
              "result", "cf_message", "cf_utf8" }

\* No object: retain count 0, no contents, no members.
NoObject == [rc |-> 0, val |-> <<>>, kv |-> {}]

\* The objects among the values of a dictionary's key/value pairs.
Members(h, d) == { p[2] : p \in h[d].kv } \cap Objects

\* The value a dictionary holds for a key (NULL when it has none).
ValueOf(h, d, key) ==
    IF \E p \in h[d].kv : p[1] = key
    THEN (CHOOSE p \in h[d].kv : p[1] = key)[2]
    ELSE NULL

\* The contents of the object a dictionary holds for a key, <<>> when none.
ContentOf(h, d, key) ==
    IF ValueOf(h, d, key) \in Objects THEN h[ValueOf(h, d, key)].val ELSE <<>>

\* CFRelease on object o: drop one reference; at zero the object is freed
\* and, being a dictionary, releases the values it retained.
Released(h, o) ==
    IF h[o].rc # 1
    THEN [h EXCEPT ![o].rc = IF h[o].rc = 0 THEN 0 ELSE h[o].rc - 1]
    ELSE [x \in Objects |->
            IF x = o THEN NoObject
            ELSE IF x \in Members(h, o)
                 THEN (IF h[x].rc <= 1 THEN NoObject
                       ELSE [h[x] EXCEPT !.rc = h[x].rc - 1])
                 ELSE h[x]]

\* A release that reaches an object with no reference left.
ReleasesDead(h, o) ==
    \/ h[o].rc = 0
    \/ h[o].rc = 1 /\ \E x \in Members(h, o) : h[x].rc = 0

-----------------------------------------------------------------------------
(* The functions of the module, each as the steps of its body.             *)

\* One step: i names it, d is the local it writes, s what it reads, x the rest.
I(i, d, s, x) == [i |-> i, d |-> d, s |-> s, x |-> x]

NoCode == [variant |-> "None", raw |-> 0]

\* The mapping with the branches of two statuses swapped.
KeychainErrorCodeFrom_swapped(st) ==
    IF st = errSecAuthFailed THEN [variant |-> "AuthFailed", raw |-> 0]
    ELSE IF st = errSecDuplicateItem THEN [variant |-> "ItemNotFound", raw |-> 0]
    ELSE IF st = errSecItemNotFound THEN [variant |-> "DuplicateItem", raw |-> 0]
    ELSE IF st = errSecInvalidOwnerEdit
         THEN [variant |-> "InvalidOwnerEdit", raw |-> 0]
    ELSE [variant |-> "UnknownStatusCode", raw |-> st]

\* The mapping with a catch-all that drops the raw code.
KeychainErrorCodeFrom_dropped(st) ==
    IF st = errSecAuthFailed THEN [variant |-> "AuthFailed", raw |-> 0]
    ELSE IF st = errSecDuplicateItem THEN [variant |-> "DuplicateItem", raw |-> 0]
    ELSE IF st = errSecItemNotFound THEN [variant |-> "ItemNotFound", raw |-> 0]
    ELSE IF st = errSecInvalidOwnerEdit
         THEN [variant |-> "InvalidOwnerEdit", raw |-> 0]
    ELSE [variant |-> "UnknownStatusCode", raw |-> 0]

\* impl From<OSStatus> for KeychainErrorCode
KeychainErrorCodeFrom(st) ==
    IF st = errSecAuthFailed THEN [variant |-> "AuthFailed", raw |-> 0]
    ELSE IF st = errSecDuplicateItem THEN [variant |-> "DuplicateItem", raw |-> 0]
    ELSE IF st = errSecItemNotFound THEN [variant |-> "ItemNotFound", raw |-> 0]
    ELSE IF st = errSecInvalidOwnerEdit
         THEN [variant |-> "InvalidOwnerEdit", raw |-> 0]
    ELSE [variant |-> "UnknownStatusCode", raw |-> st]

\* cfutil::vec_from_cfdata: assert, then copy the bytes into an owned vector.
vec_from_cfdata(cfdata, dst) ==
    << I("assert", "", cfdata, ""),
       I("from_raw_parts", dst, cfdata, "") >>

\* cfutil::string_from_cf_string
string_from_cf_string(cfstring, dst) ==
    << I("assert", "", cfstring, ""),
       I("CFStringCreateExternalRepresentation", "cf_utf8", cfstring, "") >>
    \o vec_from_cfdata("cf_utf8", dst)
    \o << I("CFRelease", "", "cf_utf8", "") >>

\* The conversion without the release of the message string.
KeychainErrorFrom_leaking(st) ==
    << I("SecCopyErrorMessageString", "cf_message", st, "") >>
    \o string_from_cf_string("cf_message", "message")
    \o << I("Err", "", st, "") >>

\* impl From<OSStatus> for KeychainError
KeychainErrorFrom(st) ==
    << I("SecCopyErrorMessageString", "cf_message", st, "") >>
    \o string_from_cf_string("cf_message", "message")
    \o << I("CFRelease", "", "cf_message", ""),
          I("Err", "", st, "") >>

\* status_to_result with the test of the status inverted.
status_to_result_inverted(st) ==
    IF st # errSecSuccess
    THEN << I("Ok", "", "", "") >>
    ELSE << I("SecCopyErrorMessageString", "cf_message", st, ""),
            I("assert", "", "cf_message", ""),
            I("CFStringCreateExternalRepresentation", "cf_utf8", "cf_message", ""),
            I("assert", "", "cf_utf8", ""),
            I("from_raw_parts", "message", "cf_utf8", ""),
            I("CFRelease", "", "cf_utf8", ""),
            I("CFRelease", "", "cf_message", ""),
            I("Err", "", st, "") >>

\* status_to_result: the steps that yield the Result of a status.
status_to_result(st) ==
    IF st = errSecSuccess
    THEN << I("Ok", "", "", "") >>
    ELSE KeychainErrorFrom(st)

\* add_generic_password with the blob made of the account name.
add_generic_password_name_as_data(service, account) ==
    << I("CFStringCreateWithBytesNoCopy", "cf_service", service, ""),
       I("assert", "", "cf_service", ""),
       I("CFStringCreateWithBytesNoCopy", "cf_account", account.name, ""),
       I("assert", "", "cf_account", ""),
       I("CFDataCreateWithBytesNoCopy", "cf_password", account.name, ""),
       I("assert", "", "cf_password", ""),
       I("create_dictionary", "attributes", "",
         << <<"kSecClass", "kSecClassGenericPassword">>,
            <<"kSecAttrService", "cf_service">>,
            <<"kSecAttrAccount", "cf_account">>,
            <<"kSecValueData", "cf_password">> >>),
       I("assert", "", "attributes", ""),
       I("SecItemAdd", "", "attributes", ""),
       I("CFRelease", "", "attributes", ""),
       I("CFRelease", "", "cf_service", ""),
       I("CFRelease", "", "cf_account", ""),
       I("CFRelease", "", "cf_password", ""),
       I("status_to_result", "", "", "return") >>

add_generic_password(service, account) ==
    << I("CFStringCreateWithBytesNoCopy", "cf_service", service, ""),
       I("assert", "", "cf_service", ""),
       I("CFStringCreateWithBytesNoCopy", "cf_account", account.name, ""),
       I("assert", "", "cf_account", ""),
       I("CFDataCreateWithBytesNoCopy", "cf_password", account.password, ""),
       I("assert", "", "cf_password", ""),
       I("create_dictionary", "attributes", "",
         << <<"kSecClass", "kSecClassGenericPassword">>,
            <<"kSecAttrService", "cf_service">>,
            <<"kSecAttrAccount", "cf_account">>,
            <<"kSecValueData", "cf_password">> >>),
       I("assert", "", "attributes", ""),
       I("SecItemAdd", "", "attributes", ""),
       I("CFRelease", "", "attributes", ""),
       I("CFRelease", "", "cf_service", ""),
       I("CFRelease", "", "cf_account", ""),
       I("CFRelease", "", "cf_password", ""),
       I("status_to_result", "", "", "return") >>

\* delete_generic_passwords_by_service with a query that names no service.
delete_generic_passwords_any_service(service) ==
    << I("CFStringCreateWithBytesNoCopy", "cf_service", service, ""),
       I("assert", "", "cf_service", ""),
       I("create_dictionary", "query", "",
         << <<"kSecClass", "kSecClassGenericPassword">> >>),
       I("assert", "", "query", ""),
       I("SecItemDelete", "", "query", ""),
       I("CFRelease", "", "query", ""),
       I("CFRelease", "", "cf_service", ""),
       I("status_to_result", "", "", "return") >>

delete_generic_passwords_by_service(service) ==
    << I("CFStringCreateWithBytesNoCopy", "cf_service", service, ""),
       I("assert", "", "cf_service", ""),
       I("create_dictionary", "query", "",
         << <<"kSecClass", "kSecClassGenericPassword">>,
            <<"kSecAttrService", "cf_service">> >>),
       I("assert", "", "query", ""),
       I("SecItemDelete", "", "query", ""),
       I("CFRelease", "", "query", ""),
       I("CFRelease", "", "cf_service", ""),
       I("status_to_result", "", "", "return") >>

\* find_generic_password_by_service that also releases the account field.
find_generic_password_releasing_field(service) ==
    << I("CFStringCreateWithBytesNoCopy", "cf_service", service, ""),
       I("assert", "", "cf_service", ""),
       I("create_dictionary", "query", "",
         << <<"kSecClass", "kSecClassGenericPassword">>,
            <<"kSecAttrService", "cf_service">>,
            <<"kSecMatchLimit", "kSecMatchLimitOne">>,
            <<"kSecReturnAttributes", "kCFBooleanTrue">>,
            <<"kSecReturnData", "kCFBooleanTrue">> >>),
       I("assert", "", "query", ""),
       I("SecItemCopyMatching", "result", "query", ""),
       I("CFRelease", "", "cf_service", ""),
       I("CFRelease", "", "query", ""),
       I("status_to_result", "", "", "?"),
       I("assert", "", "result", ""),
       I("CFDictionaryGetValue", "cf_account", "result", "kSecAttrAccount"),
       I("CFDictionaryGetValue", "cf_password", "result", "kSecValueData") >>
    \o string_from_cf_string("cf_account", "name")
    \o vec_from_cfdata("cf_password", "password")
    \o << I("CFRelease", "", "cf_account", ""),
          I("CFRelease", "", "result", ""),
          I("Ok", "", "", "") >>

\* find_generic_password_by_service that releases the result before reading it.
find_generic_password_releasing_early(service) ==
    << I("CFStringCreateWithBytesNoCopy", "cf_service", service, ""),
       I("assert", "", "cf_service", ""),
       I("create_dictionary", "query", "",
         << <<"kSecClass", "kSecClassGenericPassword">>,
            <<"kSecAttrService", "cf_service">>,
            <<"kSecMatchLimit", "kSecMatchLimitOne">>,
            <<"kSecReturnAttributes", "kCFBooleanTrue">>,
            <<"kSecReturnData", "kCFBooleanTrue">> >>),
       I("assert", "", "query", ""),
       I("SecItemCopyMatching", "result", "query", ""),
       I("CFRelease", "", "cf_service", ""),
       I("CFRelease", "", "query", ""),
       I("status_to_result", "", "", "?"),
       I("assert", "", "result", ""),
       I("CFDictionaryGetValue", "cf_account", "result", "kSecAttrAccount"),
       I("CFDictionaryGetValue", "cf_password", "result", "kSecValueData"),
       I("CFRelease", "", "result", "") >>
    \o string_from_cf_string("cf_account", "name")
    \o vec_from_cfdata("cf_password", "password")
    \o << I("Ok", "", "", "") >>

find_generic_password_by_service(service) ==
    << I("CFStringCreateWithBytesNoCopy", "cf_service", service, ""),
       I("assert", "", "cf_service", ""),
       I("create_dictionary", "query", "",
         << <<"kSecClass", "kSecClassGenericPassword">>,
            <<"kSecAttrService", "cf_service">>,
            <<"kSecMatchLimit", "kSecMatchLimitOne">>,
            <<"kSecReturnAttributes", "kCFBooleanTrue">>,
            <<"kSecReturnData", "kCFBooleanTrue">> >>),
       I("assert", "", "query", ""),
       I("SecItemCopyMatching", "result", "query", ""),
       I("CFRelease", "", "cf_service", ""),
       I("CFRelease", "", "query", ""),
       I("status_to_result", "", "", "?"),
       I("assert", "", "result", ""),
       I("CFDictionaryGetValue", "cf_account", "result", "kSecAttrAccount"),
       I("CFDictionaryGetValue", "cf_password", "result", "kSecValueData") >>
    \o string_from_cf_string("cf_account", "name")
    \o vec_from_cfdata("cf_password", "password")
    \o << I("CFRelease", "", "result", ""),
          I("Ok", "", "", "") >>

\* The body of the function a call names.
Body(c) ==
    IF c.op = "add"
    THEN add_generic_password(c.service, [name |-> c.name, password |-> c.password])
    ELSE IF c.op = "delete"
         THEN delete_generic_passwords_by_service(c.service)
         ELSE find_generic_password_by_service(c.service)

-----------------------------------------------------------------------------
(* State.                                                                  *)

NoCall == [op |-> "none", service |-> <<>>, name |-> <<>>, password |-> <<>>]

NoPrev == [op |-> "none", service |-> <<>>, name |-> <<>>, password |-> <<>>,
           tag |-> "None", variant |-> "None"]

NoRet == [tag |-> "None", code |-> NoCode, message |-> <<>>,
          name |-> <<>>, password |-> <<>>]

NoLocal == [message |-> <<>>, name |-> <<>>, password |-> <<>>]

\* The calls tried: every delete and find, and the adds of "s"/"u" with
\* either password, of a second account of "s" and of an account of "é".
Calls ==
    { c \in [op : {"add"}, service : Services, name : Names,
             password : Passwords] :
        /\ c.service = <<115>> \/ c.name = <<117>>
        /\ c.password = <<112>> \/ (c.service = <<115>> /\ c.name = <<117>>) }
    \cup [op : {"delete", "find"}, service : Services,
          name : {<<>>}, password : {<<>>}]

\* The state every call starts from: nothing allocated, nothing returned.
Fresh ==
    /\ heap' = [o \in Objects |-> NoObject]
    /\ ptr' = [p \in Pointers |-> NULL]
    /\ status' = errSecSuccess
    /\ local' = NoLocal
    /\ ret' = NoRet
    /\ created' = 0
    /\ released' = 0
    /\ rel' = [o \in Objects |-> 0]
    /\ requests' = 0
    /\ copied' = {}
    /\ uaf' = FALSE
    /\ overRelease' = FALSE

Init ==
    /\ store = {}
    /\ pre = {}
    /\ call = NoCall
    /\ prev = NoPrev
    /\ todo = <<>>
    /\ heap = [o \in Objects |-> NoObject]
    /\ ptr = [p \in Pointers |-> NULL]
    /\ status = errSecSuccess
    /\ local = NoLocal
    /\ ret = NoRet
    /\ created = 0
    /\ released = 0
    /\ rel = [o \in Objects |-> 0]
    /\ requests = 0
    /\ copied = {}
    /\ uaf = FALSE
    /\ overRelease = FALSE

\* The step the running call executes next.
Running(i) == todo # <<>> /\ Head(todo).i = i

Step == Head(todo)

\* A pointer that is null or whose object has been freed.
Dead(p) == p = NULL \/ heap[p].rc = 0

\* A dictionary that is freed or holds a value that is.
DeadQuery(q) == Dead(q) \/ \E x \in Members(heap, q) : heap[x].rc = 0

\* The contents read through a pointer (nothing through a null one).
Val(p) == IF p = NULL THEN <<>> ELSE heap[p].val

\* The call ends by a panic (a failed assert!).
Panic ==
    /\ ret' = [NoRet EXCEPT !.tag = "Panic"]
    /\ todo' = <<>>

-----------------------------------------------------------------------------
(* The caller.                                                             *)

\* A caller invokes one of the three functions once the last call is over.
Call ==
    /\ todo = <<>>
    /\ \E c \in Calls :
          /\ call' = c
          /\ todo' = Body(c)
    /\ prev' = IF call.op = "none" THEN NoPrev
               ELSE [op |-> call.op, service |-> call.service, name |-> call.name,
                     password |-> call.password, tag |-> ret.tag,
                     variant |-> ret.code.variant]
    /\ pre' = store
    /\ Fresh
    /\ UNCHANGED store

-----------------------------------------------------------------------------
(* CoreFoundation steps.                                                   *)

\* CFStringCreateWithBytesNoCopy(.., bytes, len, kCFStringEncodingUTF8, ..):
\* a new string decoded from the bytes, or NULL.
CFStringCreateWithBytesNoCopy ==
    /\ Running("CFStringCreateWithBytesNoCopy")
    /\ \/ /\ heap' = [heap EXCEPT ![Step.d] =
                        [rc |-> 1, val |-> Utf8Decode(Step.s), kv |-> {}]]
          /\ ptr' = [ptr EXCEPT ![Step.d] = Step.d]
          /\ created' = created + 1
       \/ /\ ptr' = [ptr EXCEPT ![Step.d] = NULL]
          /\ UNCHANGED <<heap, created>>
    /\ todo' = Tail(todo)
    /\ UNCHANGED <<store, pre, call, prev, status, local, ret, released, rel,
                   requests, copied, uaf, overRelease>>

\* CFDataCreateWithBytesNoCopy(.., bytes, len, ..): a new blob, or NULL.
CFDataCreateWithBytesNoCopy ==
    /\ Running("CFDataCreateWithBytesNoCopy")
    /\ \/ /\ heap' = [heap EXCEPT ![Step.d] =
                        [rc |-> 1, val |-> Step.s, kv |-> {}]]
          /\ ptr' = [ptr EXCEPT ![Step.d] = Step.d]
          /\ created' = created + 1
       \/ /\ ptr' = [ptr EXCEPT ![Step.d] = NULL]
          /\ UNCHANGED <<heap, created>>
    /\ todo' = Tail(todo)
    /\ UNCHANGED <<store, pre, call, prev, status, local, ret, released, rel,
                   requests, copied, uaf, overRelease>>

\* The key/value pairs of a new dictionary: a local stands for its object.
Pairs(items) ==
    { << items[k][1],
         IF items[k][2] \in Pointers THEN ptr[items[k][2]] ELSE items[k][2] >>
      : k \in 1 .. Len(items) }

\* cfutil::create_dictionary: CFDictionaryCreate with the CFType callbacks,
\* which retain every value; a new dictionary, or NULL.
create_dictionary ==
    /\ Running("create_dictionary")
    /\ \/ /\ heap' = [o \in Objects |->
                        IF o = Step.d
                        THEN [rc |-> 1, val |-> <<>>, kv |-> Pairs(Step.x)]
                        ELSE IF o \in { p[2] : p \in Pairs(Step.x) }
                             THEN [heap[o] EXCEPT !.rc = heap[o].rc + 1]
                             ELSE heap[o]]
          /\ ptr' = [ptr EXCEPT ![Step.d] = Step.d]
          /\ created' = created + 1
          /\ uaf' = (uaf \/ \E p \in Pairs(Step.x) :
                               p[2] \in Objects /\ heap[p[2]].rc = 0)
       \/ /\ ptr' = [ptr EXCEPT ![Step.d] = NULL]
          /\ UNCHANGED <<heap, created, uaf>>
    /\ todo' = Tail(todo)
    /\ UNCHANGED <<store, pre, call, prev, status, local, ret, released, rel,
                   requests, copied, overRelease>>

\* assert!(!p.is_null())
AssertNotNull ==
    /\ Running("assert")
    /\ IF ptr[Step.s] = NULL
       THEN Panic
       ELSE todo' = Tail(todo) /\ UNCHANGED ret
    /\ UNCHANGED <<store, pre, call, prev, heap, ptr, status, local,
                   created, released, rel, requests, copied, uaf, overRelease>>

\* CFRelease(p)
CFRelease ==
    /\ Running("CFRelease")
    /\ IF ptr[Step.s] = NULL
       THEN /\ overRelease' = TRUE
            /\ UNCHANGED <<heap, rel>>
       ELSE /\ heap' = Released(heap, ptr[Step.s])
            /\ rel' = [rel EXCEPT ![ptr[Step.s]] = @ + 1]
            /\ overRelease' = (overRelease \/ ReleasesDead(heap, ptr[Step.s]))
    /\ released' = released + 1
    /\ todo' = Tail(todo)
    /\ UNCHANGED <<store, pre, call, prev, ptr, status, local, ret,
                   created, requests, copied, uaf>>

\* CFDictionaryGetValue(dict, key): the value itself, not retained ("Get" rule).
CFDictionaryGetValue ==
    /\ Running("CFDictionaryGetValue")
    /\ ptr' = [ptr EXCEPT ![Step.d] =
                 IF ptr[Step.s] = NULL THEN NULL
                 ELSE ValueOf(heap, ptr[Step.s], Step.x)]
    /\ uaf' = (uaf \/ Dead(ptr[Step.s]))
    /\ todo' = Tail(todo)
    /\ UNCHANGED <<store, pre, call, prev, heap, status, local, ret,
                   created, released, rel, requests, copied, overRelease>>

\* CFStringCreateExternalRepresentation(.., s, kCFStringEncodingUTF8, 0):
\* a new blob holding the string's UTF-8 bytes, or NULL.
CFStringCreateExternalRepresentation ==
    /\ Running("CFStringCreateExternalRepresentation")
    /\ \/ /\ heap' = [heap EXCEPT ![Step.d] =
                        [rc |-> 1, val |-> Utf8Encode(Val(ptr[Step.s])),
                         kv |-> {}]]
          /\ ptr' = [ptr EXCEPT ![Step.d] = Step.d]
          /\ created' = created + 1
       \/ /\ ptr' = [ptr EXCEPT ![Step.d] = NULL]
          /\ UNCHANGED <<heap, created>>
    /\ uaf' = (uaf \/ Dead(ptr[Step.s]))
    /\ todo' = Tail(todo)
    /\ UNCHANGED <<store, pre, call, prev, status, local, ret, released, rel,
                   requests, copied, overRelease>>

\* slice::from_raw_parts(CFDataGetBytePtr(d), CFDataGetLength(d)).into()
FromRawParts ==
    /\ Running("from_raw_parts")
    /\ local' = [local EXCEPT ![Step.d] = Val(ptr[Step.s])]
    /\ copied' = copied \cup {Step.d}
    /\ uaf' = (uaf \/ Dead(ptr[Step.s]))
    /\ todo' = Tail(todo)
    /\ UNCHANGED <<store, pre, call, prev, heap, ptr, status, ret,
                   created, released, rel, requests, overRelease>>

-----------------------------------------------------------------------------
(* The keychain (Security framework).  A request is either refused with    *)
(* one of the Faults, leaving the keychain as it is, or carried out.       *)

\* The items a query selects: those equal on every attribute the query names.
Matching(q) ==
    { e \in store :
        /\ ValueOf(heap, q, "kSecAttrService") \in Objects
              => e.svc = ContentOf(heap, q, "kSecAttrService")
        /\ ValueOf(heap, q, "kSecAttrAccount") \in Objects
              => e.acct = ContentOf(heap, q, "kSecAttrAccount") }

\* The item an attribute dictionary describes.
ItemOf(a) ==
    [svc |-> ContentOf(heap, a, "kSecAttrService"),
     acct |-> ContentOf(heap, a, "kSecAttrAccount"),
     data |-> ContentOf(heap, a, "kSecValueData")]

\* SecItemAdd(attributes, NULL): errSecDuplicateItem when an item with the
\* same service and account exists, else the item is stored.
SecItemAdd ==
    /\ Running("SecItemAdd")
    /\ \/ \E f \in Faults : status' = f /\ UNCHANGED store
       \/ /\ \E e \in store : /\ e.svc = ItemOf(ptr[Step.s]).svc
                              /\ e.acct = ItemOf(ptr[Step.s]).acct
          /\ status' = errSecDuplicateItem
          /\ UNCHANGED store
       \/ /\ ~ \E e \in store : /\ e.svc = ItemOf(ptr[Step.s]).svc
                                /\ e.acct = ItemOf(ptr[Step.s]).acct
          /\ status' = errSecSuccess
          /\ store' = store \cup {ItemOf(ptr[Step.s])}
    /\ requests' = requests + 1
    /\ uaf' = (uaf \/ DeadQuery(ptr[Step.s]))
    /\ todo' = Tail(todo)
    /\ UNCHANGED <<pre, call, prev, heap, ptr, local, ret, created, released,
                   rel, copied, overRelease>>

\* SecItemDelete(query): removes every item the query selects.  With no
\* item selected the keychain reports errSecItemNotFound or success.
SecItemDelete ==
    /\ Running("SecItemDelete")
    /\ \/ \E f \in Faults : status' = f /\ UNCHANGED store
       \/ /\ Matching(ptr[Step.s]) # {}
          /\ status' = errSecSuccess
          /\ store' = store \ Matching(ptr[Step.s])
       \/ /\ Matching(ptr[Step.s]) = {}
          /\ status' \in {errSecSuccess, errSecItemNotFound}
          /\ UNCHANGED store
    /\ requests' = requests + 1
    /\ uaf' = (uaf \/ DeadQuery(ptr[Step.s]))
    /\ todo' = Tail(todo)
    /\ UNCHANGED <<pre, call, prev, heap, ptr, local, ret, created, released,
                   rel, copied, overRelease>>

\* What a result dictionary holds of an item for the query's return flags.
ResultPairs(q) ==
    (IF ValueOf(heap, q, "kSecReturnAttributes") = "kCFBooleanTrue"
     THEN { <<"kSecAttrAccount", "result.account">> } ELSE {})
    \cup
    (IF ValueOf(heap, q, "kSecReturnData") = "kCFBooleanTrue"
     THEN { <<"kSecValueData", "result.data">> } ELSE {})

\* SecItemCopyMatching(query, &mut result): errSecItemNotFound and no result
\* when nothing is selected; else one selected item (kSecMatchLimitOne) as a
\* new dictionary the caller owns, which owns the attribute and data objects.
SecItemCopyMatching ==
    /\ Running("SecItemCopyMatching")
    /\ \/ /\ \E f \in Faults : status' = f
          /\ UNCHANGED <<heap, ptr, created>>
       \/ /\ Matching(ptr[Step.s]) = {}
          /\ status' = errSecItemNotFound
          /\ UNCHANGED <<heap, ptr, created>>
       \/ /\ \E e \in Matching(ptr[Step.s]) :
                heap' = [heap EXCEPT
                    ![Step.d] = [rc |-> 1, val |-> <<>>,
                                 kv |-> ResultPairs(ptr[Step.s])],
                    !["result.account"] = [rc |-> 1, val |-> e.acct, kv |-> {}],
                    !["result.data"] = [rc |-> 1, val |-> e.data, kv |-> {}]]
          /\ ptr' = [ptr EXCEPT ![Step.d] = Step.d]
          /\ status' = errSecSuccess
          /\ created' = created + 1
    /\ requests' = requests + 1
    /\ uaf' = (uaf \/ DeadQuery(ptr[Step.s]))
    /\ todo' = Tail(todo)
    /\ UNCHANGED <<store, pre, call, prev, local, ret, released, rel, copied,
                   overRelease>>

\* SecCopyErrorMessageString(status, NULL): a new string the caller owns, or NULL.
SecCopyErrorMessageString ==
    /\ Running("SecCopyErrorMessageString")
    /\ \/ /\ heap' = [heap EXCEPT ![Step.d] =
                        [rc |-> 1, val |-> ErrorMessageText(Step.s), kv |-> {}]]
          /\ ptr' = [ptr EXCEPT ![Step.d] = Step.d]
          /\ created' = created + 1
       \/ /\ ptr' = [ptr EXCEPT ![Step.d] = NULL]
          /\ UNCHANGED <<heap, created>>
    /\ todo' = Tail(todo)
    /\ UNCHANGED <<store, pre, call, prev, status, local, ret, released, rel,
                   requests, copied, uaf, overRelease>>

-----------------------------------------------------------------------------
(* Results.                                                                *)

\* status_to_result(status), returned as it is or unwrapped by `?`, which
\* goes on after Ok(()) and returns the Err.
StatusToResult ==
    /\ Running("status_to_result")
    /\ todo' = IF Step.x = "?" /\ status_to_result(status)[1].i = "Ok"
               THEN Tail(todo)
               ELSE status_to_result(status)
    /\ UNCHANGED <<store, pre, call, prev, heap, ptr, status, local, ret,
                   created, released, rel, requests, copied, uaf, overRelease>>

\* Ok(()) of add and delete, Ok(account) of find.
ReturnOk ==
    /\ Running("Ok")
    /\ ret' = [NoRet EXCEPT !.tag = "Ok", !.name = local.name,
                            !.password = local.password]
    /\ todo' = <<>>
    /\ UNCHANGED <<store, pre, call, prev, heap, ptr, status, local,
                   created, released, rel, requests, copied, uaf, overRelease>>

\* Err(KeychainError { status: status.into(), message })
ReturnErr ==
    /\ Running("Err")
    /\ ret' = [NoRet EXCEPT !.tag = "Err",
                            !.code = KeychainErrorCodeFrom(Step.s),
                            !.message = local.message]
    /\ todo' = <<>>
    /\ UNCHANGED <<store, pre, call, prev, heap, ptr, status, local,
                   created, released, rel, requests, copied, uaf, overRelease>>

-----------------------------------------------------------------------------

Next ==
    \/ Call
    \/ CFStringCreateWithBytesNoCopy
    \/ CFDataCreateWithBytesNoCopy
    \/ create_dictionary
    \/ AssertNotNull
    \/ SecItemAdd
    \/ SecItemDelete
    \/ SecItemCopyMatching
    \/ CFRelease
    \/ StatusToResult
    \/ SecCopyErrorMessageString
    \/ CFStringCreateExternalRepresentation
    \/ FromRawParts
    \/ CFDictionaryGetValue
    \/ ReturnOk
    \/ ReturnErr

Spec == Init /\ [][Next]_vars

-----------------------------------------------------------------------------
(* The status mapping on its own: status.into() for every raw code of      *)
(* RawCodes.                                                               *)

\* let code: KeychainErrorCode = status.into();
Into ==
    /\ ret.tag = "None"
    /\ ret' = [NoRet EXCEPT !.tag = "Code", !.code = KeychainErrorCodeFrom(status)]
    /\ UNCHANGED <<store, pre, call, prev, todo, heap, ptr, status, local,
                   created, released, rel, requests, copied, uaf, overRelease>>

\* The next raw status to convert.
Pick ==
    /\ ret.tag = "Code"
    /\ status' \in RawCodes
    /\ ret' = NoRet
    /\ UNCHANGED <<store, pre, call, prev, todo, heap, ptr, local,
                   created, released, rel, requests, copied, uaf, overRelease>>

NextStatus == Into \/ Pick

SpecStatus == Init /\ [][NextStatus]_vars

-----------------------------------------------------------------------------
(* Properties.                                                             *)

\* The call is over and returned a Result (it did not panic).
Returned == todo = <<>> /\ ret.tag \in {"Ok", "Err"}

\* The keychain carried out the call's request (it did not refuse it).
Granted == status \notin Faults

\* The items of a keychain stored for a service given as a Rust string.
ForService(items, service) == { e \in items : e.svc = Utf8Decode(service) }

\* The previous call was op on the same service as the running one.
After(op) == prev.op = op /\ prev.service = call.service

ItemNotFound == ret.tag = "Err" /\ ret.code.variant = "ItemNotFound"

\* C1 as stated.  Round trip: a find that follows an add of the same service
\* that returned Ok returns the name and the password added, and a find that
\* follows a delete of the service returns Err(ItemNotFound) (the keychain
\* granting access).
C1_RoundTrip ==
    (Returned /\ call.op = "find" /\ Granted) =>
        /\ (After("add") /\ prev.tag = "Ok") =>
              /\ ret.tag = "Ok"
              /\ ret.name = prev.name
              /\ ret.password = prev.password
        /\ (After("delete") /\ prev.tag = "Ok") => ItemNotFound

\* C1 amended.  Round trip when the added item is the only one of its
\* service: a find that follows an add of the same service that returned Ok,
\* the keychain holding no other item of that service, returns the name and
\* the password added; a find that follows a delete of the service returns
\* Err(ItemNotFound) (the keychain granting access).
C1_RoundTripOnlyItem ==
    (Returned /\ call.op = "find" /\ Granted) =>
        /\ (/\ After("add") /\ prev.tag = "Ok"
            /\ Cardinality(ForService(store, call.service)) = 1) =>
              /\ ret.tag = "Ok"
              /\ ret.name = prev.name
              /\ ret.password = prev.password
        /\ (After("delete") /\ prev.tag = "Ok") => ItemNotFound

C1_Witness ==
    /\ Returned /\ call.op = "find" /\ After("add") /\ prev.tag = "Ok"
    /\ call.service = <<195, 169>>
    /\ ret.tag = "Ok" /\ ret.name = prev.name /\ ret.password = prev.password

\* The item stored with the service and account name of the running add.
SameKey(items) ==
    { e \in items : e.svc = Utf8Decode(call.service)
                    /\ e.acct = Utf8Decode(call.name) }

C3_BulkDelete ==
    /\ (Returned /\ call.op = "delete" /\ Granted) =>
          store = pre \ ForService(pre, call.service)
    /\ (/\ Returned /\ call.op = "find" /\ Granted
        /\ After("delete") /\ prev.tag = "Ok") => ItemNotFound

C3_Witness ==
    /\ Returned /\ call.op = "delete" /\ ret.tag = "Ok"
    /\ Cardinality(ForService(pre, call.service)) = 2
    /\ ForService(store, call.service) = {}
    /\ store # {}

\* C4.  No leak on returning paths: when a call returns Ok or Err, every
\* object it created or was handed is freed and it made as many CFRelease
\* calls as it created or was handed objects.
C4_NoLeakOnReturn ==
    Returned => /\ \A o \in Objects : heap[o].rc = 0
                /\ created = released

C4_Witness ==
    /\ Returned /\ call.op = "add"
    /\ ret.tag = "Err" /\ ret.code.variant = "DuplicateItem"
    /\ created = 6 /\ released = 6

\* C5.  Status mapping: each of the four known raw codes converts to its
\* own variant and every other raw code to UnknownStatusCode carrying the
\* raw code.
C5_StatusMapping ==
    ret.tag = "Code" =>
        /\ status = errSecAuthFailed => ret.code.variant = "AuthFailed"
        /\ status = errSecDuplicateItem => ret.code.variant = "DuplicateItem"
        /\ status = errSecItemNotFound => ret.code.variant = "ItemNotFound"
        /\ status = errSecInvalidOwnerEdit
              => ret.code.variant = "InvalidOwnerEdit"
        /\ status \notin { errSecAuthFailed, errSecDuplicateItem,
                           errSecItemNotFound, errSecInvalidOwnerEdit }
              => /\ ret.code.variant = "UnknownStatusCode"
                 /\ ret.code.raw = status

C5_Witness ==
    /\ ret.tag = "Code" /\ status = errSecNotAvailable
    /\ ret.code.variant = "UnknownStatusCode" /\ ret.code.raw = errSecNotAvailable

\* C6.  A call that returns has issued one request; it returns Ok exactly
\* when the status of that request is errSecSuccess, and otherwise Err with
\* the code that status converts to and the keychain's message for that
\* status; no Err carries the success code.
C6_ResultFromStatus ==
    Returned =>
        /\ requests = 1
        /\ ret.tag = "Ok" <=> status = errSecSuccess
        /\ ret.tag = "Err" =>
              /\ ret.code = KeychainErrorCodeFrom(status)
              /\ ret.message = <<195, 169, (0 - status) % 128>>
              /\ ~ (ret.code.variant = "UnknownStatusCode"
                    /\ ret.code.raw = errSecSuccess)

C6_Witness ==
    /\ Returned /\ call.op = "find" /\ status = errSecItemNotFound
    /\ ret.tag = "Err" /\ ret.code.variant = "ItemNotFound"
    /\ ret.message = <<195, 169, 84>>

\* C7 as stated.  A delete the keychain does not refuse returns Ok, also
\* when no item matches the service.
C7_DeleteNeverFails ==
    (Returned /\ call.op = "delete" /\ Granted) => ret.tag = "Ok"

\* C8.  Container owns its members: no object is released twice, no release
\* reaches an object without a reference left, and the account and data
\* objects of the result dictionary are never released by the call.
C8_ContainerOwnsMembers ==
    /\ \A o \in Objects : rel[o] <= 1
    /\ rel["result.account"] = 0
    /\ rel["result.data"] = 0
    /\ ~ overRelease

C8_Witness ==
    /\ Running("Ok") /\ call.op = "find"
    /\ rel["result"] = 1
    /\ ptr["cf_account"] = "result.account"
    /\ heap["result.account"].rc = 0 /\ heap["result.data"].rc = 0

\* C9 as stated.  Release on panic: when a call ends by a panic, every
\* object it created or was handed is freed.
C9_ReleasedOnPanic ==
    (todo = <<>> /\ ret.tag = "Panic") => \A o \in Objects : heap[o].rc = 0

\* C10.  No use after release: no foreign call and no read touches a freed
\* object; the result dictionary is released only after the name and the
\* password are copied out of it; the query or attribute dictionary and its
\* members are released only after the request is issued.
C10_NoUseAfterRelease ==
    /\ ~ uaf
    /\ rel["result"] > 0 => {"name", "password"} \subseteq copied
    /\ \A o \in {"attributes", "query", "cf_service", "cf_account",
                 "cf_password"} : rel[o] > 0 => requests = 1

C10_Witness ==
    /\ Returned /\ call.op = "find" /\ ret.tag = "Ok"
    /\ rel["result"] = 1 /\ rel["query"] = 1 /\ rel["cf_service"] = 1
    /\ copied = {"name", "password"}
    /\ ret.name = <<195, 188>>

=============================================================================
